---- MODULE Spec2Model ----
(***************************************************************************)
(* Model of the Gemini proxy: the Express process server (server/index.js) *)
(* and the two stateless handlers (api/generate.js, api/analyzeDocument.js)*)
(* together with the three copies of the response unwrapper.               *)
(***************************************************************************)
EXTENDS Integers, Sequences, FiniteSets, TLC

VARIABLES envKey, srv, errLog, pc, req, upCalls, upBody, reply, resp, nResp,
          uData, uCopy, uOut

vars == <<envKey, srv, errLog, pc, req, upCalls, upBody, reply, resp, nResp,
          uData, uCopy, uOut>>

handlerVars == <<envKey, srv, errLog, pc, req, upCalls, upBody, reply, resp, nResp>>
unwrapVars == <<uData, uCopy, uOut>>

(* ---------------- bounds ---------------- *)
\* longest upstream text the unwrapper is applied to
MaxTextLen == 3
\* longest textParts array of an analysis request
MaxParts == 2
\* number of requests that can be in flight at once
NumReq == 2

(* ---------------- JavaScript values ---------------- *)
\* A JS value is [t |-> its type, s |-> its characters]; for an object that
\* carries a text property, s is that property.
Undef == [t |-> "undefined", s |-> <<>>]
Null == [t |-> "null", s |-> <<>>]
Str(s) == [t |-> "string", s |-> s]
Num(s) == [t |-> "number", s |-> s]
Bool(s) == [t |-> "boolean", s |-> s]
Obj == [t |-> "object", s |-> <<>>]
Arr == [t |-> "array", s |-> <<>>]
ObjText(s) == [t |-> "object", s |-> s]

\* ToBoolean
Truthy(v) ==
  CASE v.t \in {"undefined", "null"} -> FALSE
    [] v.t = "string" -> v.s # <<>>
    [] v.t = "number" -> v.s # <<"0">>
    [] v.t = "boolean" -> v.s = <<"true">>
    [] OTHER -> TRUE

Nullish(v) == v.t \in {"undefined", "null"}

\* a ?? b
NullishCoalesce(a, b) == IF Nullish(a) THEN b ELSE a

\* a || b
LogicalOr(a, b) == IF Truthy(a) THEN a ELSE b

(* ---------------- strings: trim, startsWith, JSON.parse ---------------- *)
\* Characters: the JSON brackets, " " (JSON whitespace), "nb" (a character
\* such as U+00A0 or U+FEFF that String.prototype.trim removes but that is
\* not JSON whitespace) and "x" (any other character).
Chars == {"{", "}", "[", "]", " ", "nb", "x"}
TrimChars == {" ", "nb"}
JsonWs == {" "}

SeqsUpTo(S, n) == UNION {[1..k -> S] : k \in 0..n}

RECURSIVE TrimStart(_)
TrimStart(s) ==
  IF s # <<>> /\ Head(s) \in TrimChars THEN TrimStart(Tail(s)) ELSE s

RECURSIVE TrimEnd(_)
TrimEnd(s) ==
  IF s # <<>> /\ s[Len(s)] \in TrimChars
  THEN TrimEnd(SubSeq(s, 1, Len(s) - 1)) ELSE s

trim(s) == TrimEnd(TrimStart(s))

startsWith(s, c) == s # <<>> /\ s[1] = c

IsJsonToken(c) == c \notin JsonWs

\* the tokens of a JSON text, whitespace between them dropped
JsonTokens(s) == SelectSeq(s, IsJsonToken)

\* over Chars a JSON value is {} or [] or [ value ]
RECURSIVE IsJsonValue(_)
IsJsonValue(toks) ==
  \/ toks = <<"{", "}">>
  \/ toks = <<"[", "]">>
  \/ /\ Len(toks) >= 3
     /\ toks[1] = "["
     /\ toks[Len(toks)] = "]"
     /\ IsJsonValue(SubSeq(toks, 2, Len(toks) - 1))

Thrown == [t |-> "throw", s |-> <<>>]
Json(toks) == [t |-> "json", s |-> toks]

\* JSON.parse: the decoded value, or Thrown for a SyntaxError
JSONparse(s) ==
  IF IsJsonValue(JsonTokens(s)) THEN Json(JsonTokens(s)) ELSE Thrown

(* ---------------- upstream JSON bodies ---------------- *)
\* An upstream body is [t, text, output, candidates]: its own type and the
\* values found at data.text, data.output[0].content[0].text and
\* data.candidates[0].content[0].text (Undef when the path does not resolve).
Data(t, a, b, c) == [t |-> t, text |-> a, output |-> b, candidates |-> c]
NullData == Data("null", Undef, Undef, Undef)
NoData == Data("none", Undef, Undef, Undef)

\* data?.text, data?.output?.[0]?.content?.[0]?.text, ...
PathText(data, p) == IF data.t = "object" THEN data[p] ELSE Undef

TruthyData(data) == data.t = "object"

Extracted(raw, text, parsed) == [raw |-> raw, text |-> text, parsed |-> parsed]
NoExtract == Extracted(NoData, Undef, Undef)

\* try { if (trimmed.startsWith("{") || ...) parsed = JSON.parse(trimmed) }
\* catch { parsed = null }
parseTrimmed(maybeText) ==
  IF maybeText.t = "string"
  THEN LET trimmed == trim(maybeText.s) IN
       IF startsWith(trimmed, "{") \/ startsWith(trimmed, "[")
       THEN IF JSONparse(trimmed) = Thrown THEN Null ELSE JSONparse(trimmed)
       ELSE Null
  ELSE Null

\* analyzeDocument.js: the test is on the trimmed text, JSON.parse gets the
\* text itself
parseUntrimmed(maybeText) ==
  IF Truthy(maybeText) /\ maybeText.t = "string"
  THEN IF startsWith(trim(maybeText.s), "{") \/ startsWith(trim(maybeText.s), "[")
       THEN IF JSONparse(maybeText.s) = Thrown THEN Null
            ELSE JSONparse(maybeText.s)
       ELSE Null
  ELSE Null

\* server/index.js extractGeminiOutput
extractGeminiOutputServer(data) ==
  IF ~TruthyData(data) THEN Extracted(data, Null, Null)
  ELSE LET maybeText ==
             NullishCoalesce(PathText(data, "text"),
             NullishCoalesce(PathText(data, "output"),
             NullishCoalesce(PathText(data, "candidates"),
             NullishCoalesce(PathText(data, "candidates"),
             NullishCoalesce(PathText(data, "output"), Null)))))
       IN IF ~Truthy(maybeText) THEN Extracted(data, Null, Null)
          ELSE Extracted(data, maybeText, parseTrimmed(maybeText))

\* api/generate.js extractGeminiOutput
extractGeminiOutputGenerate(data) ==
  LET maybeText ==
        NullishCoalesce(PathText(data, "text"),
        NullishCoalesce(PathText(data, "output"),
        NullishCoalesce(PathText(data, "candidates"), Null)))
  IN Extracted(data, maybeText, parseTrimmed(maybeText))

\* api/analyzeDocument.js inline extraction
extractAnalyzeDocument(data) ==
  LET maybeText ==
        LogicalOr(PathText(data, "text"),
        LogicalOr(PathText(data, "output"),
        LogicalOr(PathText(data, "candidates"), Null)))
  IN Extracted(data, maybeText, parseUntrimmed(maybeText))

(* ---------------- the unwrapper applied to bounded inputs ---------------- *)
Texts == SeqsUpTo(Chars, MaxTextLen)

\* values whose presence and truthiness differ
PriorityVals == {Undef, Null, Str(<<>>), Str(<<"x">>), Str(<<"{", "}">>),
                 Num(<<"0">>), Obj}

UnwrapData ==
  {NullData}
  \cup {Data("object", a, b, c) : a \in PriorityVals, b \in PriorityVals,
                                  c \in PriorityVals}
  \cup {Data("object", Str(s), Undef, Undef) : s \in Texts}
  \cup {Data("object", Undef, Str(s), Undef) : s \in Texts}
  \cup {Data("object", Undef, Undef, Str(s)) : s \in Texts}

ExtractServer ==
  /\ uCopy = "none"
  /\ uCopy' = "server"
  /\ uOut' = extractGeminiOutputServer(uData)
  /\ UNCHANGED <<uData, handlerVars>>

ExtractGenerate ==
  /\ uCopy = "none"
  /\ uCopy' = "generate"
  /\ uOut' = extractGeminiOutputGenerate(uData)
  /\ UNCHANGED <<uData, handlerVars>>

ExtractAnalyze ==
  /\ uCopy = "none"
  /\ uCopy' = "analyze"
  /\ uOut' = extractAnalyzeDocument(uData)
  /\ UNCHANGED <<uData, handlerVars>>

(* ---------------- requests, upstream calls, responses ---------------- *)
Handlers == {"srvGenerate", "srvAnalyze", "fnGenerate", "fnAnalyze"}
ServerHandlers == {"srvGenerate", "srvAnalyze"}
StatelessHandlers == {"fnGenerate", "fnAnalyze"}
GenerateHandlers == {"srvGenerate", "fnGenerate"}
AnalyzeHandlers == {"srvAnalyze", "fnAnalyze"}

\* req.body as the handler sees it: kind "object" (a parsed JSON object with
\* the fields below, Undef when the field is missing), "undefined" (no body
\* was parsed) or "malformed" (the JSON body parser rejected it).
Body(kind, prompt, file, mime, tp, schema, model) ==
  [kind |-> kind, prompt |-> prompt, fileBase64 |-> file, mimeType |-> mime,
   textParts |-> tp, responseSchema |-> schema, model |-> model]

\* textParts: [t |-> type, elems |-> the elements when t = "array"]
TextParts(t, elems) == [t |-> t, elems |-> elems]
NoTextParts == TextParts("undefined", <<>>)

Request(h, method, body) == [h |-> h, method |-> method, body |-> body]
NoBody == Body("undefined", Undef, Undef, Undef, NoTextParts, Undef, Undef)
NoRequest == Request("none", "none", NoBody)

TextPart(v) == [kind |-> "text", text |-> v, mimeType |-> Undef, data |-> Undef]
InlineDataPart(mime, data) ==
  [kind |-> "inlineData", text |-> Undef, mimeType |-> mime, data |-> data]

Call(model, parts, temperature, responseMimeType, responseSchema) ==
  [model |-> model, parts |-> parts, temperature |-> temperature,
   responseMimeType |-> responseMimeType, responseSchema |-> responseSchema]
NoCall == Call(Undef, <<>>, "none", "none", Undef)

Reply(kind, status, data) == [kind |-> kind, status |-> status, data |-> data]
NoReply == Reply("none", 0, NoData)

\* errLog: console.error has logged a failure.
\* A response: HTTP status, the kind of body ("error" is {error},
\* "errorDetails" is {error, details}, "proxy" is {status, extracted, raw},
\* "empty" is res.end(), "html" is the framework's error page), the
\* Access-Control-Allow-Origin policy, and the fields of a "proxy" body.
Response(status, body, acao, bstatus, extracted, raw) ==
  [status |-> status, body |-> body, acao |-> acao, bstatus |-> bstatus,
   extracted |-> extracted, raw |-> raw]
NoResponse == Response(0, "none", "none", 0, NoExtract, NoData)

ErrorResponse(status, acao) ==
  Response(status, "error", acao, 0, NoExtract, NoData)

\* variant: the failure is left to the framework's error page
catchResponseHtml(acao) ==
  Response(500, "html", acao, 0, NoExtract, NoData)

\* catch (err) { return res.status(500).json({ error, details: String(err) }) }
catchResponse(acao) ==
  Response(500, "errorDetails", acao, 0, NoExtract, NoData)

\* express.json() rejects the body: the default error handler answers with
\* the parser's 400 and an HTML page; the route handler never runs.
bodyParserReject(acao) ==
  Response(400, "html", acao, 0, NoExtract, NoData)

Respond(r) == [act |-> "respond", resp |-> r, call |-> NoCall]
Fetch(c) == [act |-> "fetch", resp |-> NoResponse, call |-> c]

DefaultModel == Str(<<"gemini-2.5-flash">>)
modelOf(body) == IF body.model.t = "undefined" THEN DefaultModel ELSE body.model

PromptTextServer == Str(<<"Analyze this Purchase Order (server)">>)
PromptTextStateless == Str(<<"Analyze this Purchase Order (stateless)">>)

\* cors({ origin: ["http://localhost:5173"] }) against setHeader("...", "*")
acaoOf(h) == IF h \in ServerHandlers THEN "allowlist" ELSE "*"

(* ---------------- the generation route ---------------- *)
\* server/index.js: if (!prompt || typeof prompt !== "string")
promptRejectedServer(prompt) == ~Truthy(prompt) \/ prompt.t # "string"

\* api/generate.js: if (!prompt)
promptRejectedStateless(prompt) == ~Truthy(prompt)

generateCall(body) ==
  Call(modelOf(body), <<TextPart(body.prompt)>>, "0.2", "none", Undef)

\* the try block of a generation handler up to the await of fetch
generateTry(body, rejected, acao) ==
  IF body.kind = "undefined" THEN Respond(catchResponse(acao))
  ELSE IF rejected THEN Respond(ErrorResponse(400, acao))
  ELSE Fetch(generateCall(body))

(* ---------------- the analysis route ---------------- *)
\* variant: rejected only when both fields are missing
analyzeRejectedBoth(body) == ~Truthy(body.fileBase64) /\ ~Truthy(body.mimeType)

\* if (!fileBase64 || !mimeType)
analyzeRejected(body) == ~Truthy(body.fileBase64) \/ ~Truthy(body.mimeType)

\* textParts.map(p => (typeof p === "string" ? { text: p } : p))
normalizeElem(p) == IF p.t = "string" THEN ObjText(p.s) ELSE p

normalizedTextParts(tp) ==
  IF tp.t = "array"
  THEN [k \in 1..Len(tp.elems) |-> normalizeElem(tp.elems[k])]
  ELSE <<>>

\* p.text raises a TypeError on null and undefined
textThrows(p) == p.t \in {"null", "undefined"}
textOf(p) == IF p.t = "object" THEN Str(p.s) ELSE Undef

\* variant: the instructional prompt is placed before the caller's text parts
buildPartsPromptFirst(body, promptText) ==
  LET n == normalizedTextParts(body.textParts) IN
  <<TextPart(promptText)>>
  \o [k \in 1..Len(n) |-> TextPart(textOf(n[k]))]
  \o <<InlineDataPart(body.mimeType, body.fileBase64)>>

\* [...normalizedTextParts.map(p => ({ text: p.text })), { text: promptText },
\*  { inlineData: { mimeType, data: fileBase64 } }]
buildParts(body, promptText) ==
  LET n == normalizedTextParts(body.textParts) IN
  [k \in 1..Len(n) |-> TextPart(textOf(n[k]))]
  \o <<TextPart(promptText), InlineDataPart(body.mimeType, body.fileBase64)>>

partsThrow(body) ==
  \E k \in 1..Len(normalizedTextParts(body.textParts)) :
     textThrows(normalizedTextParts(body.textParts)[k])

analyzeCall(body, promptText) ==
  Call(modelOf(body), buildParts(body, promptText), "0.05", "application/json",
       IF Truthy(body.responseSchema) THEN body.responseSchema ELSE Undef)

\* the try block of an analysis handler up to the await of fetch
analyzeTry(body, promptText, acao) ==
  IF body.kind = "undefined" THEN Respond(catchResponse(acao))
  ELSE IF analyzeRejected(body) THEN Respond(ErrorResponse(400, acao))
  ELSE IF partsThrow(body) THEN Respond(catchResponse(acao))
  ELSE Fetch(analyzeCall(body, promptText))

(* ---------------- the two surfaces ---------------- *)
\* if (!GEMINI_KEY)
keyMissing(key) == key \in {"undefined", ""}

\* server/index.js: express.json(), then the route's handler up to its await
serverRoute(h, body) ==
  IF body.kind = "malformed" THEN Respond(bodyParserReject("allowlist"))
  ELSE IF h = "srvGenerate"
  THEN generateTry(body, promptRejectedServer(body.prompt), "allowlist")
  ELSE analyzeTry(body, PromptTextServer, "allowlist")

\* variant: the key is checked first and the headers are set after the
\* method checks
statelessHandlerKeyFirst(h, key, method, body) ==
  IF keyMissing(key) THEN Respond(ErrorResponse(500, "*"))
  ELSE IF method = "OPTIONS"
  THEN Respond(Response(200, "empty", "none", 0, NoExtract, NoData))
  ELSE IF method # "POST" THEN Respond(ErrorResponse(405, "none"))
  ELSE IF h = "fnGenerate"
  THEN generateTry(body, promptRejectedStateless(body.prompt), "*")
  ELSE analyzeTry(body, PromptTextStateless, "*")

\* api/generate.js, api/analyzeDocument.js: handler up to its await
statelessHandler(h, key, method, body) ==
  IF method = "OPTIONS"
  THEN Respond(Response(200, "empty", "*", 0, NoExtract, NoData))
  ELSE IF method # "POST" THEN Respond(ErrorResponse(405, "*"))
  ELSE IF keyMissing(key) THEN Respond(ErrorResponse(500, "*"))
  ELSE IF h = "fnGenerate"
  THEN generateTry(body, promptRejectedStateless(body.prompt), "*")
  ELSE analyzeTry(body, PromptTextStateless, "*")

handlerStart(r, key) ==
  IF r.h \in ServerHandlers THEN serverRoute(r.h, r.body)
  ELSE statelessHandler(r.h, key, r.method, r.body)

\* which copy of the unwrapper a handler calls
extractFor(h, data) ==
  CASE h \in ServerHandlers -> extractGeminiOutputServer(data)
    [] h = "fnGenerate" -> extractGeminiOutputGenerate(data)
    [] OTHER -> extractAnalyzeDocument(data)

\* variant: an upstream 5xx is reported as 502
proxyResponseMasked(h, rep) ==
  Response(IF rep.status >= 500 THEN 502 ELSE rep.status, "proxy", acaoOf(h),
           rep.status, extractFor(h, rep.data), rep.data)

\* const data = await r.json(); ...
\* return res.status(r.status).json({ status: r.status, extracted, raw: data })
proxyResponse(h, rep) ==
  Response(rep.status, "proxy", acaoOf(h), rep.status,
           extractFor(h, rep.data), rep.data)

\* the handler after its await: fetch rejected, r.json() rejected, or the
\* mirrored response
handlerFinish(h, rep) ==
  IF rep.kind \in {"networkError", "badJson"} THEN catchResponse(acaoOf(h))
  ELSE proxyResponse(h, rep)

(* ---------------- actions ---------------- *)
Slots == 1..NumReq

\* variant: the server listens without looking at the key
StartupNoCheck ==
  /\ srv = "starting"
  /\ srv' = "listening"
  /\ UNCHANGED <<envKey, errLog, pc, req, upCalls, upBody, reply, resp, nResp,
                 unwrapVars>>

\* server/index.js top level: exit(1) without the key, else app.listen
Startup ==
  /\ srv = "starting"
  /\ srv' = IF keyMissing(envKey) THEN "exited" ELSE "listening"
  /\ errLog' = (errLog \/ keyMissing(envKey))
  /\ UNCHANGED <<envKey, pc, req, upCalls, upBody, reply, resp, nResp, unwrapVars>>

\* a request reaches a handler; the server's routes exist only while it listens
Receive(i, R) ==
  /\ pc[i] = "idle"
  /\ \E r \in R :
       /\ r.h \in ServerHandlers => srv = "listening"
       /\ req' = [req EXCEPT ![i] = r]
  /\ pc' = [pc EXCEPT ![i] = "received"]
  /\ UNCHANGED <<envKey, srv, errLog, upCalls, upBody, reply, resp, nResp,
                 unwrapVars>>

\* the handler runs up to its first await: it responds, or it issues fetch
Handle(i) ==
  /\ pc[i] = "received"
  /\ LET o == handlerStart(req[i], envKey) IN
       IF o.act = "respond"
       THEN /\ pc' = [pc EXCEPT ![i] = "done"]
            /\ resp' = [resp EXCEPT ![i] = o.resp]
            /\ nResp' = [nResp EXCEPT ![i] = @ + 1]
            /\ errLog' = (errLog \/ o.resp.body = "errorDetails")
            /\ UNCHANGED <<upCalls, upBody>>
       ELSE /\ pc' = [pc EXCEPT ![i] = "fetching"]
            /\ upCalls' = [upCalls EXCEPT ![i] = @ + 1]
            /\ upBody' = [upBody EXCEPT ![i] = o.call]
            /\ UNCHANGED <<resp, nResp, errLog>>
  /\ UNCHANGED <<envKey, srv, req, reply, unwrapVars>>

\* the upstream call completes or fails
UpstreamReply(i, P) ==
  /\ pc[i] = "fetching"
  /\ \E rep \in P : reply' = [reply EXCEPT ![i] = rep]
  /\ pc' = [pc EXCEPT ![i] = "replied"]
  /\ UNCHANGED <<envKey, srv, errLog, req, upCalls, upBody, resp, nResp,
                 unwrapVars>>

\* variant: a failed upstream call is retried once
FinishRetry(i) ==
  /\ pc[i] = "replied"
  /\ IF reply[i].kind = "networkError" /\ upCalls[i] < 2
     THEN /\ pc' = [pc EXCEPT ![i] = "fetching"]
          /\ upCalls' = [upCalls EXCEPT ![i] = @ + 1]
          /\ UNCHANGED <<resp, nResp, errLog>>
     ELSE /\ pc' = [pc EXCEPT ![i] = "done"]
          /\ resp' = [resp EXCEPT ![i] = handlerFinish(req[i].h, reply[i])]
          /\ nResp' = [nResp EXCEPT ![i] = @ + 1]
          /\ errLog' = (errLog \/ handlerFinish(req[i].h, reply[i]).body = "errorDetails")
          /\ UNCHANGED upCalls
  /\ UNCHANGED <<envKey, srv, req, upBody, reply, unwrapVars>>

\* the handler resumes after its await and responds
Finish(i) ==
  /\ pc[i] = "replied"
  /\ pc' = [pc EXCEPT ![i] = "done"]
  /\ resp' = [resp EXCEPT ![i] = handlerFinish(req[i].h, reply[i])]
  /\ nResp' = [nResp EXCEPT ![i] = @ + 1]
  /\ errLog' = (errLog \/ handlerFinish(req[i].h, reply[i]).body = "errorDetails")
  /\ UNCHANGED <<envKey, srv, req, upCalls, upBody, reply, unwrapVars>>

\* the exchange is over; the slot takes a later request
Recycle(i) ==
  /\ pc[i] = "done"
  /\ pc' = [pc EXCEPT ![i] = "idle"]
  /\ req' = [req EXCEPT ![i] = NoRequest]
  /\ upCalls' = [upCalls EXCEPT ![i] = 0]
  /\ upBody' = [upBody EXCEPT ![i] = NoCall]
  /\ reply' = [reply EXCEPT ![i] = NoReply]
  /\ resp' = [resp EXCEPT ![i] = NoResponse]
  /\ nResp' = [nResp EXCEPT ![i] = 0]
  /\ UNCHANGED <<envKey, srv, errLog, unwrapVars>>

(* ---------------- input domains ---------------- *)
EnvKeys == {"undefined", "", "key"}
Methods == {"POST", "OPTIONS", "GET"}
Statuses == {200, 404, 503}

PromptVals == {Undef, Null, Str(<<>>), Str(<<"h">>), Num(<<"4", "2">>),
               Num(<<"0">>), Bool(<<"true">>), Obj, Arr}
ModelVals == {Undef, Str(<<"m">>)}
FileVals == {Undef, Str(<<>>), Str(<<"Q">>)}
MimeVals == {Undef, Str(<<"pdf">>)}
SchemaVals == {Undef, Obj}
ElemVals == {Str(<<"a">>), ObjText(<<"b">>), Null}
TextPartsVals ==
  {NoTextParts, TextParts("null", <<>>), TextParts("string", <<>>)}
  \cup {TextParts("array", e) : e \in SeqsUpTo(ElemVals, MaxParts)}

MalformedBody == Body("malformed", Undef, Undef, Undef, NoTextParts, Undef, Undef)

GenBodies ==
  {NoBody} \cup
  {Body("object", p, Undef, Undef, NoTextParts, Undef, m) :
     p \in PromptVals, m \in ModelVals}

AnaBodies ==
  {NoBody} \cup
  {Body("object", Undef, f, m, tp, sc, Undef) :
     f \in FileVals, m \in MimeVals, tp \in TextPartsVals, sc \in SchemaVals}

Requests ==
  {Request("srvGenerate", "POST", b) : b \in GenBodies \cup {MalformedBody}}
  \cup {Request("srvAnalyze", "POST", b) : b \in AnaBodies \cup {MalformedBody}}
  \cup {Request("fnGenerate", m, b) : m \in Methods, b \in GenBodies}
  \cup {Request("fnAnalyze", m, b) : m \in Methods, b \in AnaBodies}

ReplyData ==
  {NullData,
   Data("object", Undef, Undef, Str(<<"x">>)),
   Data("object", Undef, Undef, Str(<<"{", "}">>)),
   Data("object", Str(<<"{", "x">>), Undef, Undef),
   Data("object", Undef, Undef, Undef)}

Replies ==
  {Reply("json", st, d) : st \in Statuses, d \in ReplyData}
  \cup {Reply("networkError", 0, NoData), Reply("badJson", 503, NoData)}

\* the requests and replies of the concurrent specification
ConcRequests ==
  {Request("srvGenerate", "POST", b) :
     b \in {NoBody, MalformedBody,
            Body("object", Str(<<"h">>), Undef, Undef, NoTextParts, Undef, Undef),
            Body("object", Undef, Undef, Undef, NoTextParts, Undef, Undef)}}
  \cup {Request("srvAnalyze", "POST", b) :
     b \in {Body("object", Undef, Str(<<"Q">>), Str(<<"pdf">>),
                 TextParts("array", <<Str(<<"a">>)>>), Undef, Undef),
            Body("object", Undef, Str(<<"Q">>), Str(<<"pdf">>),
                 TextParts("array", <<Null>>), Undef, Undef),
            Body("object", Undef, Undef, Str(<<"pdf">>),
                 NoTextParts, Undef, Undef)}}
  \cup {Request("fnGenerate", m, b) :
     m \in {"POST", "OPTIONS"},
     b \in {Body("object", Str(<<"h">>), Undef, Undef, NoTextParts, Undef, Undef),
            Body("object", Undef, Undef, Undef, NoTextParts, Undef, Undef)}}
  \cup {Request("fnAnalyze", "POST",
          Body("object", Undef, Str(<<"Q">>), Str(<<"pdf">>),
               NoTextParts, Undef, Undef))}

ConcReplies ==
  {Reply("json", 200, Data("object", Undef, Undef, Str(<<"x">>))),
   Reply("json", 503, NullData),
   Reply("networkError", 0, NoData),
   Reply("badJson", 200, NoData)}

(* ---------------- specifications ---------------- *)
InitHandlers ==
  /\ srv = "starting"
  /\ errLog = FALSE
  /\ pc = [i \in Slots |-> "idle"]
  /\ req = [i \in Slots |-> NoRequest]
  /\ upCalls = [i \in Slots |-> 0]
  /\ upBody = [i \in Slots |-> NoCall]
  /\ reply = [i \in Slots |-> NoReply]
  /\ resp = [i \in Slots |-> NoResponse]
  /\ nResp = [i \in Slots |-> 0]

Init ==
  /\ envKey \in EnvKeys
  /\ InitHandlers
  /\ uData = NoData
  /\ uCopy = "none"
  /\ uOut = NoExtract

\* one request at a time, over the full input domains
Next ==
  \/ Startup
  \/ Receive(1, Requests)
  \/ Handle(1)
  \/ UpstreamReply(1, Replies)
  \/ Finish(1)
  \/ Recycle(1)

Spec == Init /\ [][Next]_vars

\* requests handled concurrently
NextConc ==
  \/ Startup
  \/ \E i \in Slots : Receive(i, ConcRequests)
  \/ \E i \in Slots : Handle(i)
  \/ \E i \in Slots : UpstreamReply(i, ConcReplies)
  \/ \E i \in Slots : Finish(i)
  \/ \E i \in Slots : Recycle(i)

SpecConc == Init /\ [][NextConc]_vars

\* the three copies of the unwrapper applied to every bounded upstream body
InitUnwrap ==
  /\ envKey = "key"
  /\ InitHandlers
  /\ uData \in UnwrapData
  /\ uCopy = "none"
  /\ uOut = NoExtract

NextUnwrap ==
  \/ ExtractServer
  \/ ExtractGenerate
  \/ ExtractAnalyze

SpecUnwrap == InitUnwrap /\ [][NextUnwrap]_vars

(* ---------------- properties ---------------- *)
Done(i) == pc[i] = "done"
Stateless(i) == req[i].h \in StatelessHandlers
Server(i) == req[i].h \in ServerHandlers
HasErrorField(r) == r.body \in {"error", "errorDetails"}
\* a stateless handler gets past its method and credential checks
PostWithKey(i) == Stateless(i) => (req[i].method = "POST" /\ envKey = "key")

\* C1: on the generation route of either surface a request whose prompt is
\* missing or not a string is answered 400 with an error field and causes no
\* upstream call.
C1_PromptRejected ==
  \A i \in Slots :
    ( /\ req[i].h \in GenerateHandlers
      /\ PostWithKey(i)
      /\ req[i].body.kind = "object"
      /\ req[i].body.prompt.t # "string" )
    => /\ upCalls[i] = 0
       /\ Done(i) => (resp[i].status = 400 /\ HasErrorField(resp[i]))

\* C2: when the upstream call completes with status s and JSON body b, the
\* response has status s and body {status: s, extracted, raw: b}.
C2_StatusMirrored ==
  \A i \in Slots :
    (Done(i) /\ reply[i].kind = "json")
    => /\ resp[i].status = reply[i].status
       /\ resp[i].body = "proxy"
       /\ resp[i].bstatus = reply[i].status
       /\ resp[i].raw = reply[i].data

C2_Witness ==
  \E i \in Slots :
    /\ Done(i)
    /\ reply[i].kind = "json"
    /\ reply[i].status = 503
    /\ resp[i].status = 503
    /\ resp[i].raw = reply[i].data

\* the first of the three candidates that is neither null nor undefined
FirstPresent(d) ==
  IF d.t # "object" THEN Null
  ELSE IF d.text.t \notin {"null", "undefined"} THEN d.text
  ELSE IF d.output.t \notin {"null", "undefined"} THEN d.output
  ELSE IF d.candidates.t \notin {"null", "undefined"} THEN d.candidates
  ELSE Null

\* C3: every copy of the unwrapper returns as text the first candidate that
\* is neither null nor undefined, and null only when there is none.
C3_FirstPresentWins ==
  uCopy # "none" => uOut.text = FirstPresent(uData)

\* the parts the analysis route is to send for a well-formed textParts
WellFormedParts(tp) ==
  tp.t = "array" => \A k \in 1..Len(tp.elems) : tp.elems[k].t \in {"string", "object"}

PromptOf(h) == IF h = "srvAnalyze" THEN PromptTextServer ELSE PromptTextStateless

\* C4: the upstream parts are the n text parts of textParts in order, then
\* the instructional prompt, then the inline-data part; only the last two
\* when textParts is absent or not a sequence.
C4_PartsOrder ==
  \A i \in Slots :
    ( /\ req[i].h \in AnalyzeHandlers
      /\ upCalls[i] >= 1
      /\ WellFormedParts(req[i].body.textParts) )
    => LET tp == req[i].body.textParts
           n == IF tp.t = "array" THEN Len(tp.elems) ELSE 0
           parts == upBody[i].parts
       IN /\ Len(parts) = n + 2
          /\ \A k \in 1..n : /\ parts[k].kind = "text"
                             /\ parts[k].text = Str(tp.elems[k].s)
          /\ parts[n + 1].kind = "text"
          /\ parts[n + 1].text = PromptOf(req[i].h)
          /\ parts[n + 2].kind = "inlineData"
          /\ parts[n + 2].mimeType = req[i].body.mimeType
          /\ parts[n + 2].data = req[i].body.fileBase64

C4_Witness ==
  \E i \in Slots :
    /\ req[i].h \in AnalyzeHandlers
    /\ upCalls[i] = 1
    /\ req[i].body.textParts = TextParts("array", <<Str(<<"a">>), ObjText(<<"b">>)>>)
    /\ Len(upBody[i].parts) = 4

\* the server neither listens nor serves
ServerNeverServes ==
  /\ srv # "listening"
  /\ \A i \in Slots : ~Server(i)

\* C5 as stated: without the credential the server never binds or serves and
\* a stateless handler answers 500 whatever the method.
C5_Original ==
  envKey = "undefined"
  => /\ ServerNeverServes
     /\ \A i \in Slots : (Stateless(i) /\ Done(i)) => resp[i].status = 500

\* C5 amended: without the credential the server never binds or serves and a
\* stateless handler answers every POST with 500 and no upstream call; OPTIONS
\* is answered 200 and any other method 405 before the credential is read.
C5_Amended ==
  envKey = "undefined"
  => /\ ServerNeverServes
     /\ \A i \in Slots :
          Stateless(i)
          => /\ upCalls[i] = 0
             /\ Done(i) => resp[i].status =
                             (CASE req[i].method = "POST" -> 500
                                [] req[i].method = "OPTIONS" -> 200
                                [] OTHER -> 405)

C5_Witness ==
  /\ envKey = "undefined"
  /\ srv = "exited"
  /\ \E i \in Slots :
       /\ Stateless(i)
       /\ Done(i)
       /\ req[i].method = "POST"
       /\ resp[i].status = 500

\* C6: on the analysis route a request lacking fileBase64 or mimeType is
\* answered 400 whatever its other fields, with no upstream call.
C6_FileRequired ==
  \A i \in Slots :
    ( /\ req[i].h \in AnalyzeHandlers
      /\ PostWithKey(i)
      /\ req[i].body.kind = "object"
      /\ (req[i].body.fileBase64 = Undef \/ req[i].body.mimeType = Undef) )
    => /\ upCalls[i] = 0
       /\ pc[i] \in {"received", "done"}
       /\ Done(i) => (resp[i].status = 400 /\ HasErrorField(resp[i]))

C6_Witness ==
  \E i \in Slots :
    /\ req[i].h \in AnalyzeHandlers
    /\ Done(i)
    /\ req[i].body.fileBase64 # Undef
    /\ req[i].body.mimeType = Undef
    /\ req[i].body.textParts = TextParts("array", <<Null>>)
    /\ req[i].body.responseSchema = Obj
    /\ resp[i].status = 400

\* C7: parsed is the decoded JSON exactly when the returned text is a string
\* whose trimmed form starts with { or [ and is valid JSON, and null otherwise.
C7_ParsedExactly ==
  uCopy # "none"
  => LET t == uOut.text
         trimmed == trim(t.s)
         looksJson == /\ t.t = "string"
                      /\ (startsWith(trimmed, "{") \/ startsWith(trimmed, "["))
                      /\ IsJsonValue(JsonTokens(trimmed))
     IN uOut.parsed = IF looksJson THEN Json(JsonTokens(trimmed)) ELSE Null

\* a failure raised inside a server route handler
RaisedInHandler(i) ==
  /\ Server(i)
  /\ \/ req[i].body.kind = "undefined"
     \/ /\ req[i].h = "srvAnalyze"
        /\ req[i].body.kind = "object"
        /\ Truthy(req[i].body.fileBase64)
        /\ Truthy(req[i].body.mimeType)
        /\ req[i].body.textParts.t = "array"
        /\ \E k \in 1..Len(req[i].body.textParts.elems) :
              req[i].body.textParts.elems[k] = Null
     \/ reply[i].kind \in {"networkError", "badJson"}

MalformedRequest(i) == Server(i) /\ req[i].body.kind = "malformed"

\* equal requests with equal upstream replies get equal responses
SameAnswer(S) ==
  \A i \in S : \A j \in S :
    (Done(i) /\ Done(j) /\ req[i] = req[j] /\ reply[i] = reply[j])
    => resp[i] = resp[j]

\* C8 as stated: every failure while handling a server request, a malformed
\* request body included, is answered 500 {error, details}, and the server
\* keeps listening.
C8_Original ==
  \A i \in Slots :
    /\ Server(i) => srv = "listening"
    /\ (Done(i) /\ (RaisedInHandler(i) \/ MalformedRequest(i)))
       => (resp[i].status = 500 /\ resp[i].body = "errorDetails")

\* C8 amended: every failure raised inside a server route handler is answered
\* 500 {error, details}; a body the JSON parser rejects is answered 400 by the
\* framework before the handler runs; the server keeps listening, and a
\* request that raises nothing is answered as ever, whatever failed before.
C8_Amended ==
  /\ \A i \in Slots :
       /\ Server(i) => srv = "listening"
       /\ (Done(i) /\ RaisedInHandler(i))
          => (resp[i].status = 500 /\ resp[i].body = "errorDetails")
       /\ MalformedRequest(i)
          => (upCalls[i] = 0 /\ (Done(i) => resp[i].status = 400))
       /\ (Server(i) /\ Done(i) /\ ~RaisedInHandler(i) /\ ~MalformedRequest(i))
          => resp[i].body \in {"error", "proxy"}
  /\ SameAnswer({i \in Slots : Server(i)})

C8_Witness ==
  /\ errLog
  /\ srv = "listening"
  /\ \E i \in Slots : \E j \in Slots :
       /\ Server(i) /\ Done(i) /\ RaisedInHandler(i)
       /\ resp[i].status = 500
       /\ Server(j) /\ Done(j) /\ resp[j].body = "proxy" /\ resp[j].status = 200

\* C9: a stateless handler sets Access-Control-Allow-Origin: * on every
\* response; OPTIONS is answered 200 with an empty body, and any method other
\* than POST and OPTIONS 405, without reading the credential or calling
\* upstream.
C9_CorsAndMethods ==
  \A i \in Slots :
    Stateless(i)
    => /\ Done(i) => resp[i].acao = "*"
       /\ req[i].method = "OPTIONS"
          => /\ upCalls[i] = 0
             /\ Done(i) => (resp[i].status = 200 /\ resp[i].body = "empty")
       /\ req[i].method \notin {"POST", "OPTIONS"}
          => /\ upCalls[i] = 0
             /\ Done(i) => resp[i].status = 405

C9_Witness ==
  /\ envKey = "undefined"
  /\ \E i \in Slots :
       /\ Stateless(i)
       /\ Done(i)
       /\ req[i].method = "OPTIONS"
       /\ resp[i].status = 200
       /\ resp[i].acao = "*"

\* the method, credential and required-field checks of a request
ChecksPassed(i) ==
  /\ req[i].method = "POST"
  /\ envKey = "key"
  /\ req[i].body.kind = "object"
  /\ IF req[i].h \in GenerateHandlers
     THEN req[i].body.prompt # Undef
     ELSE req[i].body.fileBase64 # Undef /\ req[i].body.mimeType # Undef

\* C10: under any interleaving a request issues at most one upstream call, and
\* only after its checks have passed; it has no response while the call is
\* pending and exactly one once it is over; equal requests with equal replies
\* get equal responses whatever else is in flight.
C10_OneCallOneResponse ==
  /\ \A i \in Slots :
       /\ upCalls[i] <= 1
       /\ upCalls[i] = 1 => ChecksPassed(i)
       /\ pc[i] \in {"fetching", "replied"} => upCalls[i] = 1
       /\ nResp[i] = IF Done(i) THEN 1 ELSE 0
  /\ SameAnswer(Slots)

C10_Witness ==
  \E i \in Slots : \E j \in Slots :
    /\ i # j
    /\ Done(i) /\ upCalls[i] = 1 /\ nResp[i] = 1
    /\ pc[j] = "fetching" /\ upCalls[j] = 1 /\ nResp[j] = 0

====
